---- MODULE Spec2Model ----
(***************************************************************************)
(* The BrewBlox commands menu (brewblox_menu/commands.py): the menu loop   *)
(* of main(), the Command actions, run_all / run, confirm and the probes.  *)
(* Texts that the code only compares or prints are TLA+ strings; texts the *)
(* code transforms character by character (lower, rstrip, startswith) are  *)
(* sequences of one-character strings.                                     *)
(***************************************************************************)
EXTENDS Integers, Sequences, FiniteSets, TLC

\* ------------------------------------------------------------------ bounds
\* longest list of launch arguments explored
MaxArgs == 2
\* most menu renders explored (the interactive loop is unbounded in the code)
MaxRenders == 3
\* most unparseable answers explored inside one confirm() call
MaxRetries == 1

\* ------------------------------------------------------------- text helpers
None == "<None>"

DigitText(d) ==
    CASE d = 0 -> "0" [] d = 1 -> "1" [] d = 2 -> "2" [] d = 3 -> "3"
      [] d = 4 -> "4" [] d = 5 -> "5" [] d = 6 -> "6" [] d = 7 -> "7"
      [] d = 8 -> "8" [] d = 9 -> "9"

\* str(n) of a non-negative integer: its decimal text
RECURSIVE Str(_)
Str(n) == IF n < 10 THEN DigitText(n) ELSE Str(n \div 10) \o DigitText(n % 10)

\* ''.join(chars): the text of a sequence of characters
RECURSIVE Join(_)
Join(chars) == IF chars = <<>> THEN "" ELSE Head(chars) \o Join(Tail(chars))

LowerChar(c) ==
    CASE c = "Y" -> "y" [] c = "E" -> "e" [] c = "S" -> "s" [] c = "N" -> "n"
      [] c = "O" -> "o" [] c = "T" -> "t" [] c = "R" -> "r" [] c = "U" -> "u"
      [] c = "F" -> "f" [] c = "A" -> "a" [] c = "L" -> "l" [] c = "M" -> "m"
      [] c = "B" -> "b"
      [] OTHER -> c

\* str.lower()
Lower(chars) == [i \in DOMAIN chars |-> LowerChar(chars[i])]

\* str.rstrip('/')
RECURSIVE RStripSlash(_)
RStripSlash(chars) ==
    IF chars # <<>> /\ chars[Len(chars)] = "/"
    THEN RStripSlash(SubSeq(chars, 1, Len(chars) - 1))
    ELSE chars

\* str.startswith(prefix)
StartsWith(chars, prefix) ==
    /\ Len(prefix) <= Len(chars)
    /\ SubSeq(chars, 1, Len(prefix)) = prefix

\* distutils.util.strtobool vocabulary (after lower())
TrueWords ==
    { <<"y">>, <<"y","e","s">>, <<"t">>, <<"t","r","u","e">>, <<"o","n">>, <<"1">> }
FalseWords ==
    { <<"n">>, <<"n","o">>, <<"f">>, <<"f","a","l","s","e">>, <<"o","f","f">>, <<"0">> }

\* the outcome "raises ValueError", apart from the values 1 and 0
ValueError == 0 - 1

\* strtobool(val): 1, 0 or ValueError
strtobool(val) ==
    IF Lower(val) \in TrueWords THEN 1
    ELSE IF Lower(val) \in FalseWords THEN 0
    ELSE ValueError

\* mutant: the default is dropped (input().lower() alone)
AnsweredNoDefault(typed, default) == Lower(typed)

\* the argument confirm() hands to strtobool: input().lower() or default
Answered(typed, default) == IF Lower(typed) = <<>> THEN default ELSE Lower(typed)

\* ------------------------------------------------------------ environment
\* (platform.machine(), BREWBLOX_RELEASE) pairs explored (None: the variable is unset)
Environments ==
    { [machine |-> <<"x","8","6","_","6","4">>, release |-> None],
      [machine |-> <<"a","r","m","v","7","l">>, release |-> "edge"] }

base_dir == "/opt/brewblox_menu"

is_pi(machine) == StartsWith(machine, <<"a","r","m">>)

docker_tag(machine, release) ==
    (IF is_pi(machine) THEN "rpi-" ELSE "") \o (IF release = None THEN "latest" ELSE release)

\* --------------------------------------------------------------- registry
\* lines 303-315: the list built at the start of main()
all_commands ==
    << [class |-> "ComposeUpCommand",     keyword |-> "up"],
       [class |-> "ComposeDownCommand",   keyword |-> "down"],
       [class |-> "ComposeUpdateCommand", keyword |-> "update"],
       [class |-> "InstallCommand",       keyword |-> "install"],
       [class |-> "SetupCommand",         keyword |-> "setup"],
       [class |-> "FirmwareFlashCommand", keyword |-> "flash"],
       [class |-> "BootloaderCommand",    keyword |-> "bootloader"],
       [class |-> "WiFiCommand",          keyword |-> "wifi"],
       [class |-> "CheckStatusCommand",   keyword |-> "status"],
       [class |-> "LogFileCommand",       keyword |-> "log"],
       [class |-> "ExitCommand",          keyword |-> "exit"] >>

Min(S) == CHOOSE x \in S : \A y \in S : x <= y

\* ------------------------------------------------- shell operation lists
ComposeDownCommand_cmds == << "docker-compose down" >>

ComposeUpCommand_cmds == << "docker-compose up -d" >>

ComposeUpdateCommand_cmds ==
    << "docker-compose down", "docker-compose pull", "docker-compose up -d" >>

CheckStatusCommand_cmds == << "docker-compose ps" >>

LogFileCommand_cmds ==
    << "date > brewblox-log.txt",
       "for svc in $(docker-compose ps --services | tr \"\\n\" \" \"); do "
         \o "docker-compose logs -t --no-color --tail 200 ${svc} >> brewblox-log.txt; "
         \o "echo '\\n' >> brewblox-log.txt; "
         \o "done;" >>

SetupHost == "https://localhost/datastore"
SetupDatabase == "brewblox-ui-store"
SetupModules == << "services", "dashboards", "dashboard-items" >>

SetupPreset(mod) ==
    "cat " \o base_dir \o "/presets/" \o mod \o ".json "
      \o "| curl -Sk -X POST "
      \o "--header 'Content-Type: application/json' "
      \o "--header 'Accept: application/json' "
      \o "--data \"@-\" " \o SetupHost \o "/" \o SetupDatabase \o "/_bulk_docs"

SetupCommand_cmds ==
    << "docker-compose down",
       "docker-compose pull",
       "sudo openssl req -x509 -nodes -days 365 -newkey rsa:2048 "
         \o "-keyout traefik/brewblox.key "
         \o "-out traefik/brewblox.crt",
       "sudo chmod 644 traefik/brewblox.crt",
       "sudo chmod 600 traefik/brewblox.key",
       "docker-compose up -d datastore traefik",
       "sleep 5",
       "curl -Sk -X GET --retry 10 --retry-delay 5 " \o SetupHost \o " > /dev/null",
       "curl -Sk -X PUT " \o SetupHost \o "/_users",
       "curl -Sk -X PUT " \o SetupHost \o "/" \o SetupDatabase >>
    \o [i \in 1..Len(SetupModules) |-> SetupPreset(SetupModules[i])]
    \o << "docker-compose down" >>

FlasherRun(tag, what) ==
    "docker run -it --rm --privileged brewblox/firmware-flasher:" \o tag \o " " \o what

FlasherPull(tag) == "docker pull brewblox/firmware-flasher:" \o tag

FirmwareFlashCommand_cmds(tag) ==
    << "docker-compose down", FlasherPull(tag), FlasherRun(tag, "trigger-dfu"),
       "sleep 2", FlasherRun(tag, "flash") >>

BootloaderCommand_cmds(tag) ==
    << "docker-compose down", FlasherPull(tag), FlasherRun(tag, "flash-bootloader") >>

WiFiCommand_cmds(tag) ==
    << "docker-compose down", FlasherPull(tag), "sleep 2", FlasherRun(tag, "wifi") >>

\* InstallCommand: the operations of its list
InstallStart == << "sudo apt update", "sudo apt upgrade -y" >>
DockerInstallOp == "curl -sSL https://get.docker.com | sh"
GroupInstallOp == "sudo usermod -aG docker $USER"
ComposeInstallOp == "sudo pip install -U docker-compose"
RebootOp == "sudo reboot"

\* ask_target_dir(): the text typed, './brewblox' when blank, trailing '/' stripped
ask_target_dir(typed) ==
    Join(RStripSlash(IF typed = <<>> THEN <<".","/","b","r","e","w","b","l","o","x">> ELSE typed))

InstallFiles(target_dir, machine) ==
    << "mkdir " \o target_dir,
       "mkdir " \o target_dir \o "/couchdb",
       "mkdir " \o target_dir \o "/influxdb",
       "cp " \o base_dir \o "/install_files" \o "/"
         \o "docker-compose_" \o (IF is_pi(machine) THEN "armhf" ELSE "amd64") \o ".yml"
         \o " " \o target_dir \o "/docker-compose.yml",
       "cp -r " \o base_dir \o "/install_files" \o "/traefik " \o target_dir \o "/" >>

\* str(ex) of CalledProcessError(returncode, cmd), returncode > 0
ErrorText(cmd, returncode) ==
    "Command '" \o cmd \o "' returned non-zero exit status " \o Str(returncode) \o "."

\* ------------------------------------------------------------ input sets
Keywords == { all_commands[i].keyword : i \in 1..Len(all_commands) }
Indices == { Str(i) : i \in 1..Len(all_commands) }

\* tokens the operator types at the menu prompt
Tokens == Keywords \cup Indices \cup { "bogus", "", "0", "12", "01", "UP" }

\* tokens given as launch arguments
LaunchTokens == { "status", "3", "exit", "11", "bogus" }

RECURSIVE SeqsUpTo(_, _)
SeqsUpTo(S, n) ==
    IF n = 0 THEN { <<>> }
    ELSE SeqsUpTo(S, n - 1)
           \cup { Append(q, t) : q \in { r \in SeqsUpTo(S, n - 1) : Len(r) = n - 1 }, t \in S }

\* lines the operator types at a confirmation
ParseableLines ==
    { <<>>, <<"y">>, <<"Y">>, <<"y","e","s">>, <<"Y","E","S">>, <<"t">>,
      <<"t","r","u","e">>, <<"T","r","u","e">>, <<"o","n">>, <<"1">>,
      <<"n">>, <<"N">>, <<"n","o">>, <<"N","o">>, <<"f">>, <<"f","a","l","s","e">>,
      <<"o","f","f">>, <<"O","F","F">>, <<"0">> }
OtherLines ==
    { <<"m","a","y","b","e">>, <<" ","y">>, <<"2">>, <<"y","e">> }
ConfirmLines == ParseableLines \cup OtherLines

\* values of confirm()'s default parameter explored
Defaults == { <<"y">>, <<"n">>, <<"N","O">>, <<"t","r","u","e">>, <<"m","a","y","b","e">> }

\* lines the operator types at the target directory prompt
DirLines ==
    { <<>>, <<"/","o","p","t","/","b","b","/","/">> }

\* exit statuses of a shell operation explored
ExitStatuses == { 0, 1, 127 }

NoLine == << "<no line>" >>
NoAnswer == 0 - 2

\* ------------------------------------------------------------------ state
VARIABLES
    machine,          \* platform.machine()
    release,          \* BREWBLOX_RELEASE
    argv,             \* the launch arguments (sys.argv[1:] / args as passed)
    registry,         \* the list all_commands of main()
    args,             \* the argument queue of main()
    arg,              \* the token of this loop iteration
    fromQueue,        \* whether arg was popped from args (TRUE) or read with input() (FALSE)
    command,          \* position of the resolved command in all_commands, 0 for None
    pc,               \* position in the code
    rendered,         \* number of times the menu was printed
    nInput,           \* number of tokens read with input() at the menu prompt
    dispatched,       \* keywords of the commands whose action() was called, in order
    shell_commands,   \* the operation list of the running action
    reboot_required,  \* InstallCommand.action local
    probed,           \* InstallCommand.action: outcome of each probe ("none" before it ran)
    asked,            \* questions asked with confirm() by the running action
    announce,         \* run_all's announce parameter
    announced,        \* the operation lists printed by announce(), in order
    acks,             \* number of ENTER acknowledgements read by announce()
    connected,        \* number of "Spark is connected" acknowledgements read
    next,             \* position in shell_commands of the operation run() handles
    started,          \* shell operations started by run(), in order
    completed,        \* [cmd, returncode] of the shell operations that ended, in order
    errors,           \* texts printed by the CalledProcessError handler of main()
    root,             \* what is_root() returned: "unknown" before the call, "yes", "no"
    guardMsgs,        \* number of times the "should not be run as root" message was printed
    raised,           \* exception that left main(): "none", "SystemExit", "KeyboardInterrupt"
    caught,           \* exception handled by main(): "none", "CalledProcessError", "KeyboardInterrupt"
    question,         \* confirm(): the question
    cDefault,         \* confirm(): the default parameter
    cRet,             \* confirm(): where the caller continues
    line,             \* confirm(): the line read by input()
    nGuidance,        \* confirm(): number of guidance messages printed in this call
    answer            \* confirm(): the returned value

envVars == << machine, release, argv, registry >>
menuVars == << args, arg, fromQueue, command, rendered, nInput, dispatched >>
actionVars == << shell_commands, reboot_required, probed, asked, connected >>
runVars == << announce, announced, acks, next, started, completed >>
outVars == << errors, root, guardMsgs, raised, caught >>
confirmVars == << question, cDefault, cRet, line, nGuidance, answer >>
vars == << envVars, menuVars, actionVars, runVars, outVars, confirmVars, pc >>

\* ------------------------------------------------------- token resolution
\* mutant: the index is compared zero-based (str(idx))
ResolveZeroBased(token) ==
    LET hits == { i \in 1..Len(registry) :
                    token = registry[i].keyword \/ token = Str(i - 1) }
    IN  IF hits = {} THEN 0 ELSE Min(hits)

\* mutant: the keyword is matched as a substring (arg in cmd.keyword); of the tokens
\* explored only the empty text is a substring of a keyword without being one
ResolveSubstring(token) ==
    LET hits == { i \in 1..Len(registry) :
                    token = registry[i].keyword \/ token = "" \/ token = Str(i) }
    IN  IF hits = {} THEN 0 ELSE Min(hits)

\* positions (idx + 1) whose command the token selects
Matches(token) ==
    { i \in 1..Len(registry) :
        token = registry[i].keyword \/ token = Str(i) }

\* next((cmd for idx, cmd in enumerate(all_commands)
\*       if arg in [cmd.keyword, str(idx+1)]), None): position of the command, 0 for None
Resolve(token) == IF Matches(token) = {} THEN 0 ELSE Min(Matches(token))

NoProbes == [docker |-> "none", group |-> "none", compose |-> "none"]

ClassOf(c) == registry[c].class

InitCommon ==
    /\ registry = all_commands
    /\ arg = None
    /\ fromQueue = FALSE
    /\ command = 0
    /\ rendered = 0
    /\ nInput = 0
    /\ dispatched = <<>>
    /\ shell_commands = <<>>
    /\ reboot_required = FALSE
    /\ probed = NoProbes
    /\ asked = <<>>
    /\ connected = 0
    /\ announce = TRUE
    /\ announced = <<>>
    /\ acks = 0
    /\ next = 1
    /\ started = <<>>
    /\ completed = <<>>
    /\ errors = <<>>
    /\ root = "unknown"
    /\ guardMsgs = 0
    /\ raised = "none"
    /\ caught = "none"
    /\ line = NoLine
    /\ nGuidance = 0
    /\ answer = NoAnswer

Init ==
    /\ \E e \in Environments : machine = e.machine /\ release = e.release
    /\ argv \in SeqsUpTo(LaunchTokens, MaxArgs)
    /\ args = argv
    /\ pc = "is_root"
    /\ question = ""
    /\ cDefault = <<"y">>
    /\ cRet = "done"
    /\ InitCommon

\* mutant: the guard prints its message and does not raise
IsRootNoRaise ==
    /\ pc = "is_root"
    /\ \E detected \in BOOLEAN :
         /\ root' = IF detected THEN "yes" ELSE "no"
         /\ guardMsgs' = IF detected THEN guardMsgs + 1 ELSE guardMsgs
    /\ pc' = "render"
    /\ UNCHANGED << envVars, menuVars, actionVars, runVars, errors, raised, caught, confirmVars >>

\* ------------------------------------------------------------ main(): start
\* lines 321-329: the privilege guard, then the welcome messages
IsRoot ==
    /\ pc = "is_root"
    /\ \E detected \in BOOLEAN :
         IF detected
         THEN /\ root' = "yes"
              /\ guardMsgs' = guardMsgs + 1
              /\ raised' = "SystemExit"
              /\ pc' = "done"
         ELSE /\ root' = "no"
              /\ pc' = "render"
              /\ UNCHANGED << guardMsgs, raised >>
    /\ UNCHANGED << envVars, menuVars, actionVars, runVars, errors, caught, confirmVars >>

\* ------------------------------------------------------------- main(): loop
\* line 333: print(MENU...)
Render ==
    /\ pc = "render"
    /\ rendered < MaxRenders
    /\ rendered' = rendered + 1
    /\ pc' = "token"
    /\ UNCHANGED << envVars, args, arg, fromQueue, command, nInput, dispatched,
                    actionVars, runVars, outVars, confirmVars >>

\* mutant: the token is taken from the back of the queue (args.pop())
TakeTokenFromBack ==
    /\ pc = "token"
    /\ args # <<>>
    /\ arg' = args[Len(args)]
    /\ args' = SubSeq(args, 1, Len(args) - 1)
    /\ fromQueue' = TRUE
    /\ pc' = "dispatch"
    /\ UNCHANGED << envVars, command, rendered, nInput, dispatched,
                    actionVars, runVars, outVars, confirmVars >>

\* lines 334-335: arg = args.pop(0)
TakeToken ==
    /\ pc = "token"
    /\ args # <<>>
    /\ arg' = Head(args)
    /\ args' = Tail(args)
    /\ fromQueue' = TRUE
    /\ pc' = "dispatch"
    /\ UNCHANGED << envVars, command, rendered, nInput, dispatched,
                    actionVars, runVars, outVars, confirmVars >>

\* lines 336-337: IndexError, arg = input(...)
ReadToken ==
    /\ pc = "token"
    /\ args = <<>>
    /\ \E typed \in Tokens : arg' = typed
    /\ fromQueue' = FALSE
    /\ nInput' = nInput + 1
    /\ pc' = "dispatch"
    /\ UNCHANGED << envVars, args, command, rendered, dispatched,
                    actionVars, runVars, outVars, confirmVars >>

\* mutant: a token that matches nothing also discards the next queued token
DispatchDropsNextOnNoMatch ==
    /\ pc = "dispatch"
    /\ command' = Resolve(arg)
    /\ IF command' = 0
       THEN /\ pc' = "render"
            /\ args' = IF args = <<>> THEN args ELSE Tail(args)
            /\ UNCHANGED dispatched
       ELSE /\ pc' = "action"
            /\ dispatched' = Append(dispatched, registry[command'].keyword)
            /\ UNCHANGED args
    /\ UNCHANGED << envVars, arg, fromQueue, rendered, nInput,
                    actionVars, runVars, outVars, confirmVars >>

\* mutant: the test of the queue (if not args: break) is made for every token,
\* matched or not
DispatchBreaksOnEmptyQueue ==
    /\ pc = "dispatch"
    /\ command' = Resolve(arg)
    /\ IF command' = 0
       THEN /\ pc' = IF args = <<>> THEN "done" ELSE "render"
            /\ UNCHANGED dispatched
       ELSE /\ pc' = "action"
            /\ dispatched' = Append(dispatched, registry[command'].keyword)
    /\ UNCHANGED << envVars, args, arg, fromQueue, rendered, nInput,
                    actionVars, runVars, outVars, confirmVars >>

\* mutant: the command called is moved to the front of the registry
DispatchMovesToFront ==
    /\ pc = "dispatch"
    /\ command' = Resolve(arg)
    /\ IF command' = 0
       THEN /\ pc' = "render"
            /\ UNCHANGED << dispatched, registry >>
       ELSE /\ pc' = "action"
            /\ dispatched' = Append(dispatched, registry[command'].keyword)
            /\ registry' = << registry[command'] >>
                              \o SubSeq(registry, 1, command' - 1)
                              \o SubSeq(registry, command' + 1, Len(registry))
    /\ UNCHANGED << machine, release, argv, args, arg, fromQueue, rendered, nInput,
                    actionVars, runVars, outVars, confirmVars >>

\* lines 339-345: resolve the token; call command.action() when there is a command
Dispatch ==
    /\ pc = "dispatch"
    /\ command' = Resolve(arg)
    /\ IF command' = 0
       THEN /\ pc' = "render"
            /\ UNCHANGED dispatched
       ELSE /\ pc' = "action"
            /\ dispatched' = Append(dispatched, registry[command'].keyword)
    /\ UNCHANGED << envVars, args, arg, fromQueue, rendered, nInput,
                    actionVars, runVars, outVars, confirmVars >>

\* mutant: the test of the queue is inverted (if args: break)
AfterActionInverted(queue) == IF queue = <<>> THEN "render" ELSE "done"

\* mutant: the break is missing
AfterActionNoBreak(queue) == "render"

\* mutant: the loop ends only after a token taken from the queue
AfterActionQueuedOnly(queue) == IF queue = <<>> /\ fromQueue THEN "done" ELSE "render"

\* lines 347-348: if not args: break
AfterAction(queue) == IF queue = <<>> THEN "done" ELSE "render"

\* line 345 returned: the loop ends or goes on
Returned ==
    /\ pc = "returned"
    /\ pc' = AfterAction(args)
    /\ UNCHANGED << envVars, menuVars, actionVars, runVars, outVars, confirmVars >>

\* a KeyboardInterrupt: handled at lines 353-354 inside the try of line 331,
\* leaving main() when raised before it (the probe of line 321)
Interrupt ==
    /\ pc # "done"
    /\ IF pc = "is_root"
       THEN raised' = "KeyboardInterrupt" /\ UNCHANGED caught
       ELSE caught' = "KeyboardInterrupt" /\ UNCHANGED raised
    /\ pc' = "done"
    /\ UNCHANGED << envVars, menuVars, actionVars, runVars, errors, root, guardMsgs,
                    confirmVars >>

\* lines 357-358: an exception other than SystemExit that leaves main() ends the
\* program with a traceback
Traceback == raised \notin { "none", "SystemExit" }

\* --------------------------------------------------------- Command.run_all
\* a call of self.run_all(cmds): lines 79-81
CallRunAll(cmds) ==
    /\ shell_commands' = cmds
    /\ announce' = TRUE
    /\ next' = 1
    /\ pc' = "run_all"

\* mutant: the operations run without the announcement
RunAllSkipsAnnounce ==
    /\ pc = "run_all"
    /\ pc' = IF shell_commands = <<>> THEN "returned" ELSE "run"
    /\ UNCHANGED << envVars, menuVars, actionVars, runVars, outVars, confirmVars >>

\* lines 80-82: announce first when asked to, then the operations in order
RunAll ==
    /\ pc = "run_all"
    /\ pc' = IF announce THEN "announce"
             ELSE IF shell_commands = <<>> THEN "returned" ELSE "run"
    /\ UNCHANGED << envVars, menuVars, actionVars, runVars, outVars, confirmVars >>

\* lines 69-72: print the operations
Announce ==
    /\ pc = "announce"
    /\ announced' = Append(announced, shell_commands)
    /\ pc' = "acknowledge"
    /\ UNCHANGED << envVars, menuVars, actionVars, announce, acks, next, started, completed,
                    outVars, confirmVars >>

\* line 73: input('Press ENTER to continue, Ctrl+C to cancel')
Acknowledge ==
    /\ pc = "acknowledge"
    /\ acks' = acks + 1
    /\ pc' = IF shell_commands = <<>> THEN "returned" ELSE "run"
    /\ UNCHANGED << envVars, menuVars, actionVars, announce, announced, next, started,
                    completed, outVars, confirmVars >>

\* lines 76-77: print the operation and start it
Run ==
    /\ pc = "run"
    /\ started' = Append(started, shell_commands[next])
    /\ pc' = "wait"
    /\ UNCHANGED << envVars, menuVars, actionVars, announce, announced, acks, next,
                    completed, outVars, confirmVars >>

\* mutant: the exit status is not checked (call instead of check_call)
WaitUnchecked ==
    /\ pc = "wait"
    /\ \E returncode \in ExitStatuses :
         completed' = Append(completed, [cmd |-> shell_commands[next], returncode |-> returncode])
    /\ next' = next + 1
    /\ pc' = IF next = Len(shell_commands) THEN "returned" ELSE "run"
    /\ UNCHANGED << envVars, menuVars, actionVars, announce, announced, acks, started,
                    outVars, confirmVars >>

\* mutant: the CalledProcessError handler sits inside the loop, which goes on
WaitHandledInLoop ==
    /\ pc = "wait"
    /\ \E returncode \in ExitStatuses :
         /\ completed' = Append(completed, [cmd |-> shell_commands[next], returncode |-> returncode])
         /\ IF returncode = 0
            THEN /\ next' = next + 1
                 /\ pc' = IF next = Len(shell_commands) THEN "returned" ELSE "run"
                 /\ UNCHANGED << errors, caught >>
            ELSE /\ errors' = Append(errors, ErrorText(shell_commands[next], returncode))
                 /\ caught' = "CalledProcessError"
                 /\ pc' = "render"
                 /\ UNCHANGED next
    /\ UNCHANGED << envVars, menuVars, actionVars, announce, announced, acks, started,
                    root, guardMsgs, raised, confirmVars >>

\* line 77: check_call returns 0 or raises CalledProcessError, which main() handles
\* at lines 350-351; line 82: the next operation, or run_all returns
Wait ==
    /\ pc = "wait"
    /\ \E returncode \in ExitStatuses :
         /\ completed' = Append(completed, [cmd |-> shell_commands[next], returncode |-> returncode])
         /\ IF returncode = 0
            THEN /\ next' = next + 1
                 /\ pc' = IF next = Len(shell_commands) THEN "returned" ELSE "run"
                 /\ UNCHANGED << errors, caught >>
            ELSE /\ errors' = Append(errors, ErrorText(shell_commands[next], returncode))
                 /\ caught' = "CalledProcessError"
                 /\ pc' = "done"
                 /\ UNCHANGED next
    /\ UNCHANGED << envVars, menuVars, actionVars, announce, announced, acks, started,
                    root, guardMsgs, raised, confirmVars >>

\* ------------------------------------------------------------ the actions
\* mutant: the exit action returns instead of raising
ExitActionReturns ==
    /\ pc = "action"
    /\ ClassOf(command) = "ExitCommand"
    /\ pc' = "returned"
    /\ UNCHANGED << envVars, menuVars, actionVars, runVars, outVars, confirmVars >>

\* ExitCommand.action: raise SystemExit, which no handler of main() takes
ExitAction ==
    /\ pc = "action"
    /\ ClassOf(command) = "ExitCommand"
    /\ raised' = "SystemExit"
    /\ pc' = "done"
    /\ UNCHANGED << envVars, menuVars, actionVars, runVars, errors, root, guardMsgs, caught,
                    confirmVars >>

\* the operation list of the actions that ask nothing
PlainCommands(class) ==
    CASE class = "ComposeDownCommand" -> ComposeDownCommand_cmds
      [] class = "ComposeUpCommand" -> ComposeUpCommand_cmds
      [] class = "ComposeUpdateCommand" -> ComposeUpdateCommand_cmds
      [] class = "SetupCommand" -> SetupCommand_cmds
      [] class = "CheckStatusCommand" -> CheckStatusCommand_cmds
      [] class = "LogFileCommand" -> LogFileCommand_cmds

PlainClasses ==
    { "ComposeDownCommand", "ComposeUpCommand", "ComposeUpdateCommand", "SetupCommand",
      "CheckStatusCommand", "LogFileCommand" }

\* the actions of lines 101-125, 184-213, 271-288: build the list, run_all
PlainAction ==
    /\ pc = "action"
    /\ ClassOf(command) \in PlainClasses
    /\ CallRunAll(PlainCommands(ClassOf(command)))
    /\ UNCHANGED << envVars, menuVars, reboot_required, probed, asked, connected,
                    announced, acks, started, completed, outVars, confirmVars >>

HardwareCommands(class, tag) ==
    CASE class = "FirmwareFlashCommand" -> FirmwareFlashCommand_cmds(tag)
      [] class = "BootloaderCommand" -> BootloaderCommand_cmds(tag)
      [] class = "WiFiCommand" -> WiFiCommand_cmds(tag)

HardwareClasses == { "FirmwareFlashCommand", "BootloaderCommand", "WiFiCommand" }

\* mutant: run_all is called without waiting for the hardware
HardwareActionSkipsConfirmation ==
    /\ pc = "action"
    /\ ClassOf(command) \in HardwareClasses
    /\ CallRunAll(HardwareCommands(ClassOf(command), docker_tag(machine, release)))
    /\ UNCHANGED << envVars, menuVars, reboot_required, probed, asked, connected,
                    announced, acks, started, completed, outVars, confirmVars >>

\* lines 221-228, 239-244, 255-261: build the list
HardwareAction ==
    /\ pc = "action"
    /\ ClassOf(command) \in HardwareClasses
    /\ shell_commands' = HardwareCommands(ClassOf(command), docker_tag(machine, release))
    /\ pc' = "connect"
    /\ UNCHANGED << envVars, menuVars, reboot_required, probed, asked, connected,
                    runVars, outVars, confirmVars >>

\* lines 230-231, 246-247, 263-264: input('Please press ENTER when ...'), run_all
HardwareConnected ==
    /\ pc = "connect"
    /\ connected' = connected + 1
    /\ CallRunAll(shell_commands)
    /\ UNCHANGED << envVars, menuVars, reboot_required, probed, asked,
                    announced, acks, started, completed, outVars, confirmVars >>

\* ---------------------------------------------------------------- confirm
\* a call of confirm(q) with the default 'y': line 36 prints the question
CallConfirm(q, ret, askedBefore) ==
    /\ question' = q
    /\ cDefault' = <<"y">>
    /\ cRet' = ret
    /\ asked' = Append(askedBefore, q)
    /\ line' = NoLine
    /\ nGuidance' = 0
    /\ answer' = NoAnswer
    /\ pc' = "confirm"

\* line 39: input()
ConfirmRead ==
    /\ pc = "confirm"
    /\ \E typed \in ConfirmLines :
         /\ strtobool(Answered(typed, cDefault)) # ValueError \/ nGuidance < MaxRetries
         /\ line' = typed
    /\ pc' = "confirm_parse"
    /\ UNCHANGED << envVars, menuVars, actionVars, runVars, outVars,
                    question, cDefault, cRet, nGuidance, answer >>

\* lines 39-41: return strtobool(...), or print the guidance and read again
ConfirmParse ==
    /\ pc = "confirm_parse"
    /\ LET value == strtobool(Answered(line, cDefault))
       IN  IF value = ValueError
           THEN /\ nGuidance' = nGuidance + 1
                /\ pc' = "confirm"
                /\ UNCHANGED answer
           ELSE /\ answer' = value
                /\ nGuidance' = 0
                /\ pc' = cRet
    /\ line' = NoLine
    /\ UNCHANGED << envVars, menuVars, actionVars, runVars, outVars,
                    question, cDefault, cRet >>

\* --------------------------------------------------- InstallCommand.action
AskDocker == "Do you want to install Docker?"
AskGroup == "Do you want to run Docker commands without sudo?"
AskCompose == "Do you want to install docker-compose (from pip)?"
AskReboot == "A reboot will be required, do you want to do so?"

\* lines 139-147: the list starts with the apt operations; command_exists('docker')
InstallAction ==
    /\ pc = "action"
    /\ ClassOf(command) = "InstallCommand"
    /\ reboot_required' = FALSE
    /\ shell_commands' = InstallStart
    /\ \E exists \in BOOLEAN :
         IF exists
         THEN /\ probed' = [NoProbes EXCEPT !.docker = "yes"]
              /\ asked' = <<>>
              /\ pc' = "install_group_probe"
              /\ UNCHANGED confirmVars
         ELSE /\ probed' = [NoProbes EXCEPT !.docker = "no"]
              /\ CallConfirm(AskDocker, "install_docker", <<>>)
    /\ UNCHANGED << envVars, menuVars, connected, runVars, outVars >>

\* lines 147-149
InstallDockerAnswer ==
    /\ pc = "install_docker"
    /\ IF answer = 1
       THEN /\ shell_commands' = Append(shell_commands, DockerInstallOp)
            /\ reboot_required' = TRUE
       ELSE UNCHANGED << shell_commands, reboot_required >>
    /\ pc' = "install_group_probe"
    /\ UNCHANGED << envVars, menuVars, probed, asked, connected, runVars, outVars,
                    confirmVars >>

\* mutant: the group question is asked whatever the probe says
InstallGroupProbeAlwaysAsks ==
    /\ pc = "install_group_probe"
    /\ \E member \in BOOLEAN :
         /\ probed' = [probed EXCEPT !.group = IF member THEN "yes" ELSE "no"]
         /\ CallConfirm(AskGroup, "install_group", asked)
    /\ UNCHANGED << envVars, menuVars, shell_commands, reboot_required, connected,
                    runVars, outVars >>

\* lines 151-153: is_docker_user()
InstallGroupProbe ==
    /\ pc = "install_group_probe"
    /\ \E member \in BOOLEAN :
         IF member
         THEN /\ probed' = [probed EXCEPT !.group = "yes"]
              /\ pc' = "install_compose_probe"
              /\ UNCHANGED << asked, confirmVars >>
         ELSE /\ probed' = [probed EXCEPT !.group = "no"]
              /\ CallConfirm(AskGroup, "install_group", asked)
    /\ UNCHANGED << envVars, menuVars, shell_commands, reboot_required, connected,
                    runVars, outVars >>

\* lines 153-155
InstallGroupAnswer ==
    /\ pc = "install_group"
    /\ IF answer = 1
       THEN /\ shell_commands' = Append(shell_commands, GroupInstallOp)
            /\ reboot_required' = TRUE
       ELSE UNCHANGED << shell_commands, reboot_required >>
    /\ pc' = "install_compose_probe"
    /\ UNCHANGED << envVars, menuVars, probed, asked, connected, runVars, outVars,
                    confirmVars >>

\* lines 157-159: command_exists('docker-compose')
InstallComposeProbe ==
    /\ pc = "install_compose_probe"
    /\ \E exists \in BOOLEAN :
         IF exists
         THEN /\ probed' = [probed EXCEPT !.compose = "yes"]
              /\ pc' = "install_dir"
              /\ UNCHANGED << asked, confirmVars >>
         ELSE /\ probed' = [probed EXCEPT !.compose = "no"]
              /\ CallConfirm(AskCompose, "install_compose", asked)
    /\ UNCHANGED << envVars, menuVars, shell_commands, reboot_required, connected,
                    runVars, outVars >>

\* mutant: installing docker-compose also asks for a reboot
InstallComposeAnswerRequiresReboot ==
    /\ pc = "install_compose"
    /\ IF answer = 1
       THEN /\ shell_commands' = Append(shell_commands, ComposeInstallOp)
            /\ reboot_required' = TRUE
       ELSE UNCHANGED << shell_commands, reboot_required >>
    /\ pc' = "install_dir"
    /\ UNCHANGED << envVars, menuVars, probed, asked, connected, runVars, outVars,
                    confirmVars >>

\* lines 159-160
InstallComposeAnswer ==
    /\ pc = "install_compose"
    /\ IF answer = 1
       THEN shell_commands' = Append(shell_commands, ComposeInstallOp)
       ELSE UNCHANGED shell_commands
    /\ pc' = "install_dir"
    /\ UNCHANGED << envVars, menuVars, reboot_required, probed, asked, connected, runVars,
                    outVars, confirmVars >>

\* lines 162-177: the target directory, the file operations, then the reboot question
\* when a reboot is required, else run_all
InstallTargetDir ==
    /\ pc = "install_dir"
    /\ \E typed \in DirLines :
         LET cmds == shell_commands \o InstallFiles(ask_target_dir(typed), machine)
         IN  IF reboot_required
             THEN /\ shell_commands' = cmds
                  /\ CallConfirm(AskReboot, "install_reboot", asked)
                  /\ UNCHANGED << announce, next >>
             ELSE /\ CallRunAll(cmds)
                  /\ UNCHANGED << asked, confirmVars >>
    /\ UNCHANGED << envVars, menuVars, reboot_required, probed, connected,
                    announced, acks, started, completed, outVars >>

\* lines 174-177
InstallRebootAnswer ==
    /\ pc = "install_reboot"
    /\ CallRunAll(IF answer = 1 THEN Append(shell_commands, RebootOp) ELSE shell_commands)
    /\ UNCHANGED << envVars, menuVars, reboot_required, probed, asked, connected,
                    announced, acks, started, completed, outVars, confirmVars >>

\* ------------------------------------------------------------ specification
Next ==
    \/ IsRoot
    \/ Render
    \/ TakeToken
    \/ ReadToken
    \/ Dispatch
    \/ Returned
    \/ Interrupt
    \/ RunAll
    \/ Announce
    \/ Acknowledge
    \/ Run
    \/ Wait
    \/ ExitAction
    \/ PlainAction
    \/ HardwareAction
    \/ HardwareConnected
    \/ InstallAction
    \/ InstallDockerAnswer
    \/ InstallGroupProbe
    \/ InstallGroupAnswer
    \/ InstallComposeProbe
    \/ InstallComposeAnswer
    \/ InstallTargetDir
    \/ InstallRebootAnswer
    \/ ConfirmRead
    \/ ConfirmParse

Spec == Init /\ [][Next]_vars

\* confirm(question, default) on its own: every default, every line
InitConfirm ==
    /\ \E e \in Environments : machine = e.machine /\ release = e.release
    /\ argv = <<>>
    /\ args = <<>>
    /\ InitCommon
    /\ question = "Continue?"
    /\ cDefault \in Defaults
    /\ cRet = "done"
    /\ pc = "confirm"

NextConfirm == ConfirmRead \/ ConfirmParse

SpecConfirm == InitConfirm /\ [][NextConfirm]_vars

\* ------------------------------------------------------------------ claims
LastN(s, n) == SubSeq(s, Len(s) - n + 1, Len(s))
Last(s) == s[Len(s)]

\* the texts of the display indices 1..11, written out
DisplayIndex == << "1", "2", "3", "4", "5", "6", "7", "8", "9", "10", "11" >>
\* the keywords in display order, written out
DisplayKeyword ==
    << "up", "down", "update", "install", "setup", "flash", "bootloader", "wifi",
       "status", "log", "exit" >>

\* the position a token addresses, 0 when it is no keyword and no display index
Addressed(token) ==
    IF \E i \in 1..11 : token = DisplayKeyword[i] \/ token = DisplayIndex[i]
    THEN CHOOSE i \in 1..11 : token = DisplayKeyword[i] \/ token = DisplayIndex[i]
    ELSE 0

Unmatched(token) == Addressed(token) = 0

KeyboardInterrupted == caught = "KeyboardInterrupt" \/ raised = "KeyboardInterrupt"

\* the step is an operator interrupt
InterruptStep == ~KeyboardInterrupted /\ KeyboardInterrupted'

\* main() ended by the break of line 348
EndedByBreak == pc = "done" /\ raised = "none" /\ caught = "none"

\* C1: run_all runs the operations of its list in list order, one at a time (an
\* operation starts only when every earlier one has ended with status 0); when an
\* operation fails no later operation of the list is started, the earlier ones stay
\* executed, and the failure handed to the caller names the failing operation and
\* its exit status.
C1_RunAllInOrder ==
    /\ pc = "run" =>
         /\ Len(completed) = Len(started)
         /\ Len(started) >= next - 1
         /\ LastN(started, next - 1) = SubSeq(shell_commands, 1, next - 1)
         /\ \A j \in 1..(next - 1) :
              LastN(completed, next - 1)[j] = [cmd |-> shell_commands[j], returncode |-> 0]
    /\ pc = "wait" =>
         /\ Len(completed) = Len(started) - 1
         /\ Len(started) >= next
         /\ LastN(started, next) = SubSeq(shell_commands, 1, next)
         /\ \A j \in 1..(next - 1) :
              LastN(completed, next - 1)[j] = [cmd |-> shell_commands[j], returncode |-> 0]
    /\ caught = "CalledProcessError" =>
         /\ next \in 1..Len(shell_commands)
         /\ Len(completed) = Len(started)
         /\ Len(started) >= next
         /\ LastN(started, next) = SubSeq(shell_commands, 1, next)
         /\ \A j \in 1..(next - 1) :
              LastN(completed, next)[j] = [cmd |-> shell_commands[j], returncode |-> 0]
         /\ Last(completed).cmd = shell_commands[next]
         /\ Last(completed).returncode # 0
         /\ errors # <<>>
         /\ Last(errors) = "Command '" \o shell_commands[next]
                             \o "' returned non-zero exit status "
                             \o Str(Last(completed).returncode) \o "."

\* C1 witness: of the three operations of the update action the second failed
C1_Witness ==
    /\ caught = "CalledProcessError"
    /\ Len(shell_commands) = 3
    /\ next = 2
    /\ started = << shell_commands[1], shell_commands[2] >>

\* C2: once a shell operation of a dispatched action has failed the menu is
\* terminated: no operation of the action was started after the failing one, the
\* menu was not printed again, no token was taken from the queue afterwards, and the
\* failure was reported exactly once, with the command text and the exit status;
\* nothing else writes an error report.
C2_FailureTerminates ==
    /\ Len(errors) <= 1
    /\ errors # <<>> => caught = "CalledProcessError"
    /\ caught = "CalledProcessError" =>
         /\ pc = "done"
         /\ raised = "none"
         /\ Len(errors) = 1
         /\ Last(completed).returncode # 0
         /\ errors[1] = "Command '" \o Last(completed).cmd
                          \o "' returned non-zero exit status "
                          \o Str(Last(completed).returncode) \o "."
         /\ Len(started) = Len(completed)
         /\ Last(started) = Last(completed).cmd
         /\ \A j \in 1..(Len(completed) - 1) : completed[j].returncode = 0
         /\ rendered = (Len(argv) - Len(args)) + nInput
         /\ dispatched # <<>>
         /\ Addressed(arg) # 0
         /\ Last(dispatched) = DisplayKeyword[Addressed(arg)]

\* C2 witness: a failure with operations of the action and tokens of the queue left
C2_Witness ==
    /\ caught = "CalledProcessError"
    /\ next < Len(shell_commands)
    /\ args # <<>>

\* C3: batch mode. When every launch argument addresses a command, no token is
\* ever read interactively, the commands are dispatched in queue order, one per
\* render, and the loop never comes back to the menu with the queue empty; when
\* main() ends by its break, the menu was printed exactly once per argument and
\* every argument's command was dispatched.
C3_BatchMode ==
    (argv # <<>> /\ \A i \in 1..Len(argv) : ~Unmatched(argv[i])) =>
        /\ nInput = 0
        /\ fromQueue \/ arg = None
        /\ rendered <= Len(argv)
        /\ Len(dispatched) <= Len(argv)
        /\ \A i \in 1..Len(dispatched) : dispatched[i] = DisplayKeyword[Addressed(argv[i])]
        /\ pc \in { "render", "token" } => args # <<>>
        /\ pc = "token" => rendered = (Len(argv) - Len(args)) + 1
        /\ pc \notin { "token", "done" } => rendered = Len(argv) - Len(args)
        /\ EndedByBreak =>
             /\ rendered = Len(argv)
             /\ Len(dispatched) = Len(argv)
             /\ args = <<>>
             /\ \A i \in 1..Len(completed) : completed[i].returncode = 0

\* C3 witness: two queued commands ran and the loop ended after the second
C3_Witness ==
    /\ EndedByBreak
    /\ argv = << "status", "3" >>
    /\ dispatched = << "status", "update" >>
    /\ rendered = 2
    /\ Len(started) = 4

\* C4 as stated: main() ends by its break only in an iteration whose token was
\* taken from the queue (after an interactively read token the loop goes on).
C4_BreakOnlyAfterQueuedToken == EndedByBreak => fromQueue

\* C4 amended: after an action has returned the loop ends exactly when the queue
\* is empty, whether the token was taken from the queue or read interactively,
\* and goes back to the menu when tokens are left; the break is the only way
\* main() ends without an exception.
C4_BreakWhenQueueEmpty ==
    [][ /\ (pc = "returned" /\ ~InterruptStep) =>
             /\ IF args = <<>> THEN EndedByBreak' ELSE pc' = "render"
             /\ UNCHANGED << args, rendered, dispatched, started, errors >>
        /\ (EndedByBreak' /\ ~EndedByBreak) => (pc = "returned" /\ args = <<>>)
      ]_vars

\* C4 witness: an interactively read token's action returned and main() ended
C4_Witness ==
    /\ EndedByBreak
    /\ ~fromQueue
    /\ nInput = 1
    /\ dispatched = << "up" >>
    /\ completed = << [cmd |-> "docker-compose up -d", returncode |-> 0] >>

\* C5: a token that is no keyword and no display index calls no action, runs no
\* shell operation, reports no error and does not end the menu: the loop goes back
\* to the menu, which is printed exactly once before the next token is obtained.
C5_UnmatchedToken ==
    [][ /\ (pc = "dispatch" /\ Unmatched(arg) /\ ~InterruptStep) =>
             /\ pc' = "render"
             /\ UNCHANGED << args, rendered, nInput, dispatched, shell_commands, announced,
                             started, completed, errors, guardMsgs, raised, caught >>
        /\ (pc = "render" /\ ~InterruptStep) =>
             /\ pc' = "token"
             /\ rendered' = rendered + 1
             /\ UNCHANGED << args, arg, nInput >>
        /\ (arg' # arg \/ args' # args \/ nInput' # nInput) => pc = "token"
      ]_vars

\* C5 witness: after an unmatched queued token and an unmatched typed one the menu
\* is printed a third time, nothing having run
C5_Witness ==
    /\ pc = "token"
    /\ argv = << "bogus" >>
    /\ arg = "12"
    /\ rendered = 3
    /\ dispatched = <<>>
    /\ started = <<>>
    /\ errors = <<>>

\* C6: when is_root() reports superuser privilege the guard message is printed
\* exactly once and main() is over: the menu was never printed, no token was taken
\* or read, no command dispatched, no shell operation started; without that report
\* the guard message is never printed.
C6_RootGuard ==
    /\ root = "yes" =>
         /\ pc = "done"
         /\ guardMsgs = 1
         /\ raised = "SystemExit"
         /\ caught = "none"
         /\ rendered = 0
         /\ args = argv
         /\ arg = None
         /\ nInput = 0
         /\ dispatched = <<>>
         /\ started = <<>>
         /\ errors = <<>>
    /\ root # "yes" => guardMsgs = 0

\* C6 witness: superuser privilege detected with two launch arguments supplied
C6_Witness ==
    /\ root = "yes"
    /\ argv = << "status", "exit" >>

\* C7: the exit command is reached by its keyword and by its index; its action
\* starts no shell operation, reports no error and ends main() (by SystemExit,
\* unless the operator interrupts first); main(), once over, takes no further step,
\* so tokens left in the queue are never dispatched and the menu is not printed again.
C7_ExitCommand ==
    [][ /\ (pc = "dispatch" /\ arg \in { "exit", "11" } /\ ~InterruptStep) =>
             (pc' = "action" /\ Last(dispatched') = "exit")
        /\ (pc = "action" /\ Last(dispatched) = "exit") =>
             /\ pc' = "done"
             /\ raised' = "SystemExit" \/ InterruptStep
             /\ UNCHANGED << args, rendered, nInput, dispatched, shell_commands, announced,
                             started, completed, errors >>
        /\ pc # "done"
      ]_vars

\* C7 witness: exit dispatched by index from the queue with a token behind it
C7_Witness ==
    /\ pc = "done"
    /\ raised = "SystemExit"
    /\ argv = << "11", "status" >>
    /\ args = << "status" >>
    /\ dispatched = << "exit" >>
    /\ started = <<>>
    /\ errors = <<>>
    /\ rendered = 1

\* C8: an operator interrupt, wherever it arrives, ends main() with no error
\* report: nothing printed by the error handler and no exception leaving main().
C8_InterruptEndsCleanly ==
    KeyboardInterrupted => (pc = "done" /\ errors = <<>> /\ ~Traceback)

\* C9: dual addressing. Resolving a token gives the command at position i when
\* the token is the keyword of position i or the decimal text of i (1..11), and
\* no command for every other token.
C9_DualAddressing ==
    [][ (pc = "dispatch" /\ ~InterruptStep) =>
          /\ Len(registry) = 11
          /\ \A i \in 1..11 :
               (arg = DisplayKeyword[i] \/ arg = DisplayIndex[i]) =>
                  /\ command' = i
                  /\ registry[command'].keyword = DisplayKeyword[i]
                  /\ pc' = "action"
          /\ Unmatched(arg) => (command' = 0 /\ pc' = "render")
      ]_vars

\* C9 witness: the two-digit index 10 typed at the prompt selected the log command
C9_Witness ==
    /\ pc = "action"
    /\ arg = "10"
    /\ ~fromQueue
    /\ command = 10
    /\ Last(dispatched) = "log"

\* the lines explored that mean yes, and those that mean no, written out
YesLines ==
    { <<"y">>, <<"Y">>, <<"y","e","s">>, <<"Y","E","S">>, <<"t">>,
      <<"t","r","u","e">>, <<"T","r","u","e">>, <<"o","n">>, <<"1">> }
NoLines ==
    { <<"n">>, <<"N">>, <<"n","o">>, <<"N","o">>, <<"N","O">>, <<"f">>,
      <<"f","a","l","s","e">>, <<"o","f","f">>, <<"O","F","F">>, <<"0">> }

\* C10: confirm returns only on a parseable answer. A blank line stands for the
\* default; a yes word gives 1 (true) and a no word 0 (false), in any case; on
\* anything else confirm prints the guidance and reads again, returning nothing.
\* Reading a line alone never returns.
C10_Confirm ==
    [][ /\ pc = "confirm_parse" =>
             LET meant == IF line = <<>> THEN cDefault ELSE line
             IN  CASE meant \in YesLines -> (pc' = cRet /\ answer' = 1)
                   [] meant \in NoLines -> (pc' = cRet /\ answer' = 0)
                   [] OTHER -> /\ pc' = "confirm"
                               /\ nGuidance' = nGuidance + 1
                               /\ answer' = NoAnswer
        /\ pc = "confirm" => (pc' = "confirm_parse" /\ answer' = NoAnswer)
      ]_vars

\* C10 witness: after an unparseable line and its guidance, a blank line is read
\* under the default 'y'
C10_Witness ==
    /\ pc = "confirm_parse"
    /\ cDefault = <<"y">>
    /\ line = <<>>
    /\ nGuidance = 1

\* membership in a sequence
InSeq(x, s) == \E i \in 1..Len(s) : s[i] = x

\* C11: idempotent provisioning. In the install action a probe that reports the
\* effect present (docker, docker group, docker-compose) means its question is
\* never asked and its installation operation is not in the list; with all three
\* present the list holds no installation and no reboot operation and the reboot
\* question is not asked.
C11_IdempotentInstall ==
    /\ probed.docker = "yes" =>
         (~InSeq(AskDocker, asked) /\ ~InSeq(DockerInstallOp, shell_commands))
    /\ probed.group = "yes" =>
         (~InSeq(AskGroup, asked) /\ ~InSeq(GroupInstallOp, shell_commands))
    /\ probed.compose = "yes" =>
         (~InSeq(AskCompose, asked) /\ ~InSeq(ComposeInstallOp, shell_commands))
    /\ (probed.docker = "yes" /\ probed.group = "yes" /\ probed.compose = "yes") =>
         /\ asked = <<>>
         /\ ~InSeq(RebootOp, shell_commands)
         /\ \A i \in 1..Len(shell_commands) :
              shell_commands[i]
                \notin { DockerInstallOp, GroupInstallOp, ComposeInstallOp, RebootOp }

\* C11 witness: install ran to its end with the three probes reporting present
C11_Witness ==
    /\ EndedByBreak
    /\ Last(dispatched) = "install"
    /\ probed = [docker |-> "yes", group |-> "yes", compose |-> "yes"]
    /\ asked = <<>>
    /\ Len(shell_commands) = 7
    /\ started = shell_commands

RECURSIVE Flatten(_)
Flatten(lists) == IF lists = <<>> THEN <<>> ELSE Head(lists) \o Flatten(Tail(lists))

IsPrefix(p, s) == Len(p) <= Len(s) /\ SubSeq(s, 1, Len(p)) = p

\* C12: an operation is started only from a list that was announced in full and
\* acknowledged: the operations started are a prefix of the announced and
\* acknowledged lists, in order, and while operations run the list announced last is
\* the list being run. A cancel at the acknowledgement therefore leaves none of the
\* action's operations started.
C12_AnnounceBeforeRun ==
    /\ acks <= Len(announced)
    /\ Len(announced) <= acks + 1
    /\ IsPrefix(started, Flatten(SubSeq(announced, 1, acks)))
    /\ pc \in { "run", "wait" } =>
         /\ announced # <<>>
         /\ acks = Len(announced)
         /\ Last(announced) = shell_commands
    /\ pc = "acknowledge" =>
         /\ announced # <<>>
         /\ acks = Len(announced) - 1
         /\ Last(announced) = shell_commands
         /\ started = Flatten(SubSeq(announced, 1, acks))

\* C12 witness: the first action ran after its acknowledgement; the operator
\* cancelled at the acknowledgement of the second, none of whose operations started
C12_Witness ==
    /\ caught = "KeyboardInterrupt"
    /\ argv = << "status", "3" >>
    /\ dispatched = << "status", "update" >>
    /\ Len(announced) = 2
    /\ acks = 1
    /\ started = << "docker-compose ps" >>

\* a reboot-requiring step (Docker, docker group) is in the list
RebootStepSelected ==
    InSeq(DockerInstallOp, shell_commands) \/ InSeq(GroupInstallOp, shell_commands)

\* the install action has handed its list to run_all
InstallListFinal ==
    /\ dispatched # <<>>
    /\ Last(dispatched) = "install"
    /\ pc \in { "run_all", "announce" } \/ Len(announced) = Len(dispatched)

\* C13: in the install action the reboot question is asked only when a
\* reboot-requiring step (Docker, docker group) was selected, and always then; the
\* reboot operation is in the list handed to run_all exactly when such a step was
\* selected and the operator answered yes to the reboot question, and it is then
\* the last operation, once.
C13_RebootOnlyWhenRequired ==
    /\ InSeq(DockerInstallOp, shell_commands) => InSeq(AskDocker, asked)
    /\ InSeq(GroupInstallOp, shell_commands) => InSeq(AskGroup, asked)
    /\ InSeq(AskReboot, asked) => RebootStepSelected
    /\ InSeq(RebootOp, shell_commands) =>
         /\ RebootStepSelected
         /\ InSeq(AskReboot, asked)
         /\ answer = 1
         /\ Last(shell_commands) = RebootOp
         /\ \A i \in 1..(Len(shell_commands) - 1) : shell_commands[i] # RebootOp
    /\ InstallListFinal =>
         /\ RebootStepSelected => InSeq(AskReboot, asked)
         /\ InSeq(RebootOp, shell_commands)
              <=> (RebootStepSelected /\ InSeq(AskReboot, asked) /\ answer = 1)

\* C13 witness: only the docker group step was selected, the reboot confirmed, and
\* the list ran to its end with the reboot last
C13_Witness ==
    /\ EndedByBreak
    /\ Last(dispatched) = "install"
    /\ probed.docker = "yes"
    /\ InSeq(GroupInstallOp, shell_commands)
    /\ InSeq(AskReboot, asked)
    /\ Last(shell_commands) = RebootOp
    /\ started = shell_commands

HardwareKeywords == { "flash", "bootloader", "wifi" }

\* number of hardware-provisioning actions called so far
HardwareCalls == Cardinality({ i \in 1..Len(dispatched) : dispatched[i] \in HardwareKeywords })

\* C14: a hardware-provisioning action (flash, bootloader, wifi) reads the
\* operator's "connected" confirmation before anything else: until it is read the
\* action's list is not announced and none of its operations is started, and an
\* interrupt there ends main() with nothing of the action run.
C14_HardwareConfirmedFirst ==
    /\ connected <= HardwareCalls
    /\ HardwareCalls <= connected + 1
    /\ connected < HardwareCalls =>
         /\ Last(dispatched) \in HardwareKeywords
         /\ pc \in { "action", "connect", "done" }
         /\ pc = "done" => caught = "KeyboardInterrupt"
         /\ Len(announced) = Len(dispatched) - 1
         /\ acks = Len(announced)
         /\ started = Flatten(announced)

\* C14 witness: the operator interrupts at the "connected" prompt of the flash
\* action: its five operations are built, none announced or started
C14_Witness ==
    /\ caught = "KeyboardInterrupt"
    /\ argv = <<>>
    /\ dispatched = << "flash" >>
    /\ Len(shell_commands) = 5
    /\ connected = 0
    /\ announced = <<>>
    /\ started = <<>>

\* number of tokens taken from the queue so far
Consumed == Len(argv) - Len(args)

\* number of tokens taken from the queue so far that address a command
QueuedMatches == Cardinality({ i \in 1..Consumed : ~Unmatched(argv[i]) })

\* C15: interactive mode. While the loop is at the menu or resolving a token no
\* interactively read token has called an action, and the menu is shown again
\* after a typed token only when that token matched no command; at most one
\* action is ever called for a typed token, and when main() ends by its break
\* after a typed token, that token addressed the one command called for it.
C15_OneInteractiveAction ==
    /\ Len(dispatched) <= QueuedMatches + 1
    /\ pc \in { "render", "token" } => Len(dispatched) = QueuedMatches
    /\ pc = "dispatch" =>
         Len(dispatched) = QueuedMatches - (IF fromQueue /\ ~Unmatched(arg) THEN 1 ELSE 0)
    /\ (nInput > 0 /\ pc \in { "render", "token" }) => (~fromQueue /\ Unmatched(arg))
    /\ Len(dispatched) = QueuedMatches + 1 =>
         /\ ~fromQueue
         /\ nInput > 0
         /\ args = <<>>
         /\ ~Unmatched(arg)
         /\ Last(dispatched) = DisplayKeyword[Addressed(arg)]
         /\ pc \notin { "render", "token", "dispatch" }
    /\ (EndedByBreak /\ ~fromQueue) => Len(dispatched) = QueuedMatches + 1

\* C15 witness: started with no arguments, an unmatched token was typed, then
\* "status", whose action ended the loop
C15_Witness ==
    /\ EndedByBreak
    /\ argv = <<>>
    /\ nInput = 2
    /\ rendered = 2
    /\ arg = "status"
    /\ dispatched = << "status" >>
    /\ Len(started) = 1

IsSuffix(t, s) == Len(t) <= Len(s) /\ SubSeq(s, Len(s) - Len(t) + 1, Len(s)) = t

\* C16: the queue is in every state a suffix of the launch arguments; a step
\* changes it only by removing its first token, which becomes the token of the
\* iteration; one token is obtained per printed menu, and a token is read
\* interactively only when the queue is empty (and it stays empty).
C16_QueueConsumedInOrder ==
    /\ [](/\ IsSuffix(args, argv)
          /\ nInput > 0 => args = <<>>
          /\ (fromQueue /\ arg # None) => (Consumed >= 1 /\ arg = argv[Consumed])
          /\ Consumed + nInput = (IF pc = "token" THEN rendered - 1 ELSE rendered)
               \/ (pc = "done" /\ Consumed + nInput = rendered - 1))
    /\ [][ /\ Len(args') <= Len(args)
           /\ args' # args =>
                /\ pc = "token"
                /\ args' = Tail(args)
                /\ arg' = Head(args)
                /\ nInput' = nInput
           /\ nInput' # nInput => (pc = "token" /\ args = <<>> /\ args' = <<>>)
         ]_vars

\* C16 witness: both launch arguments were taken in order, the second matched no
\* command, and a token was then read at the prompt
C16_Witness ==
    /\ pc = "dispatch"
    /\ argv = << "3", "bogus" >>
    /\ dispatched = << "update" >>
    /\ args = <<>>
    /\ nInput = 1
    /\ rendered = 3

\* C17: handling a token that matches no command (once it has been obtained, from
\* the queue or from the prompt) leaves the queue, the launch arguments and the
\* command registry unchanged.
C17_UnmatchedTokenFrame ==
    [][ (pc = "dispatch" /\ Unmatched(arg)) =>
          UNCHANGED << args, argv, registry >>
      ]_vars

\* C17 witness: the queued token "bogus" was handled with "status" still queued
\* behind it
C17_Witness ==
    /\ pc = "render"
    /\ argv = << "bogus", "status" >>
    /\ arg = "bogus"
    /\ fromQueue
    /\ args = << "status" >>
    /\ command = 0
    /\ rendered = 1

\* C18: when the last launch argument matches no command, main() never ends by
\* its break without a token having been read at the prompt: once that last
\* token is taken the loop is resolving it, printing the menu or waiting for input
\* (or was interrupted there); a launch with arguments reads at the prompt only in
\* this case.
C18_UnmatchedLastTokenPrompts ==
    /\ (argv # <<>> /\ Unmatched(Last(argv))) =>
         /\ EndedByBreak => (nInput > 0 /\ ~fromQueue)
         /\ (args = <<>> /\ fromQueue) =>
              /\ arg = Last(argv)
              /\ pc \in { "dispatch", "render", "token", "done" }
              /\ raised = "none"
              /\ errors = <<>>
              /\ pc = "done" => caught = "KeyboardInterrupt"
    /\ (argv # <<>> /\ nInput > 0) => Unmatched(Last(argv))

\* C18 witness: launched with "status bogus", the menu is waiting for a typed
\* token after the status action ran and "bogus" matched nothing
C18_Witness ==
    /\ pc = "token"
    /\ argv = << "status", "bogus" >>
    /\ args = <<>>
    /\ fromQueue
    /\ arg = "bogus"
    /\ dispatched = << "status" >>
    /\ rendered = 3
    /\ nInput = 0

\* C19: in every state the command registry is the sequence built at startup,
\* the command at position i carrying the keyword shown with display index i, and
\* the keywords of the registry are pairwise distinct.
C19_RegistryFixed ==
    /\ registry = all_commands
    /\ Len(registry) = 11
    /\ \A i \in 1..Len(registry) : registry[i].keyword = DisplayKeyword[i]
    /\ \A i, j \in 1..Len(registry) :
         registry[i].keyword = registry[j].keyword => i = j
    /\ command \in 0..Len(registry)

\* C19 witness: two commands were called, one by index and one by keyword, and
\* main() ended by its break
C19_Witness ==
    /\ EndedByBreak
    /\ argv = << "3", "status" >>
    /\ dispatched = << "update", "status" >>
    /\ registry[3].keyword = "update"
    /\ registry[9].keyword = "status"

====
